---------------------------- MODULE Spec2Model ----------------------------
(***************************************************************************)
(* Model of src/index.py: lambda_handler, the request dispatcher over the  *)
(* DynamoDB table of to-do tasks.                                          *)
(*                                                                         *)
(* One action, LambdaHandler, is one whole invocation of lambda_handler.   *)
(* The table is the only state that outlives an invocation.  The calls the *)
(* handler makes on the table (get_item, scan, put_item, update_item,      *)
(* delete_item) are modelled with the behaviour DynamoDB documents for     *)
(* them as the source calls them: put_item replaces the item at the key,   *)
(* update_item with a SET expression and no condition writes the named     *)
(* attributes and adds the item when the key has none, delete_item removes *)
(* the item if any, and every call that names a key rejects an empty       *)
(* string as the key value.                                                *)
(***************************************************************************)
EXTENDS Integers, Sequences, FiniteSets, TLC

VARIABLES
    table,      \* the items of the DynamoDB table (src/index.py:8)
    event,      \* the event of the latest invocation
    response,   \* what the latest invocation returned
    calls,      \* the table calls the latest invocation made, in order
    watched,    \* history: one taskId, fixed at the start, whose writes are recorded
    lastWrite   \* history: the latest write on the table that took effect at `watched`

vars == <<table, event, response, calls, watched, lastWrite>>

(***************************************************************************)
(* Bound of the model.                                                     *)
(***************************************************************************)
MaxKey == 2      \* the non-empty taskId values are "1" .. "MaxKey"

\* Python's None: a missing dictionary key read with .get, or a JSON null.
None == "None"

TaskIds == {""} \cup {ToString(i) : i \in 1..MaxKey}
\* Task descriptions are only copied, never inspected: two distinct ones.
Tasks == {"Buy milk", "Walk dog"}
Methods == {"GET", "POST", "PUT", "DELETE", "PATCH"}
FieldNames == {"taskId", "task", "completed"}

(***************************************************************************)
(* The inbound events.  `nested` is requestContext.http.method and         *)
(* `httpMethod` the flat field, each None when absent.  A query is absent, *)
(* null or a map; in a map taskId is a string, or None when the map has no *)
(* such key.  A body is absent, null, a text that is no JSON, a JSON array *)
(* or a JSON object holding some of the three fields.                      *)
(***************************************************************************)
NoQuery == [kind |-> "absent", taskId |-> None]
Queries ==
    {NoQuery, [kind |-> "null", taskId |-> None]}
        \cup {[kind |-> "map", taskId |-> k] : k \in TaskIds \cup {None}}

NoBody == [kind |-> "absent", keys |-> {}, taskId |-> None, task |-> None,
           completed |-> FALSE]
ObjectBody(ks, id, t, c) ==
    [kind |-> "object", keys |-> ks,
     taskId |-> IF "taskId" \in ks THEN id ELSE None,
     task |-> IF "task" \in ks THEN t ELSE None,
     completed |-> IF "completed" \in ks THEN c ELSE FALSE]
\* Bodies json.loads rejects or that hold no object.
Malformed == {[NoBody EXCEPT !.kind = k] : k \in {"absent", "null", "invalid", "array"}}
\* Objects holding all three fields, and objects lacking some of them.
FullBodies ==
    {ObjectBody(FieldNames, id, t, c) : id \in TaskIds, t \in Tasks, c \in BOOLEAN}
PartialBodies ==
    {ObjectBody(ks, "1", "Buy milk", FALSE) : ks \in (SUBSET FieldNames) \ {FieldNames}}
KeyBodies == {ObjectBody({"taskId"}, id, None, FALSE) : id \in TaskIds}

\* The two places a method is read from: only nested, only flat, or both with
\* different values.
MethodShapes ==
    {<<m, None>> : m \in Methods} \cup {<<None, m>> : m \in Methods \cup {None}}
        \cup {<<m, "PATCH">> : m \in Methods \ {"PATCH"}} \cup {<<"PATCH", "GET">>}

\* src/index.py:19
HttpMethod(ev) == IF ev.nested # None THEN ev.nested ELSE ev.httpMethod

MkEvent(shape, q, b) ==
    [nested |-> shape[1], httpMethod |-> shape[2],
     queryStringParameters |-> q, body |-> b]

\* The events the model feeds the handler: a GET with every query, a POST and
\* a PUT with every body, a DELETE with every body of at most a taskId, and an
\* event of every method shape with neither query nor body.
Events ==
    {MkEvent(<<"GET", None>>, q, NoBody) : q \in Queries}
    \cup {MkEvent(<<m, None>>, NoQuery, b) :
            m \in {"POST", "PUT"}, b \in Malformed \cup PartialBodies \cup FullBodies}
    \cup {MkEvent(<<"DELETE", None>>, NoQuery, b) :
            b \in Malformed \cup {ObjectBody({}, None, None, FALSE)} \cup KeyBodies}
    \cup {MkEvent(s, NoQuery, NoBody) : s \in MethodShapes}

(***************************************************************************)
(* The response payloads, before json.dumps (src/index.py:74).             *)
(***************************************************************************)
Message(m) == [kind |-> "message", message |-> m, items |-> {}, error |-> ""]
ItemBody(i) == [kind |-> "item", message |-> "", items |-> {i}, error |-> ""]
ListBody(s) == [kind |-> "list", message |-> "", items |-> s, error |-> ""]
ErrorBody(e) ==
    [kind |-> "error", message |-> "Internal server error", items |-> {}, error |-> e]

(***************************************************************************)
(* The table calls.  Each returns the exception text ("" when none is      *)
(* raised), the table afterwards and the call's result.  `fault` is a      *)
(* failure of the service itself (throttling, connectivity, missing table) *)
(***************************************************************************)
ServiceError(op) ==
    "An error occurred (ProvisionedThroughputExceededException) when calling the "
        \o op \o " operation"
EmptyKeyError(op) ==
    "An error occurred (ValidationException) when calling the " \o op
        \o " operation: The AttributeValue for a key attribute cannot contain an empty string value. Key: taskId"

CallExc(op, key, fault) ==
    IF fault THEN ServiceError(op)
    ELSE IF key = "" THEN EmptyKeyError(op)
    ELSE ""

get_item(tbl, key, fault) ==
    [exc |-> CallExc("GetItem", key, fault), table |-> tbl,
     result |-> {i \in tbl : i.taskId = key}]

scan(tbl, fault) ==
    [exc |-> IF fault THEN ServiceError("Scan") ELSE "", table |-> tbl, result |-> tbl]

put_item(tbl, item, fault) ==
    LET exc == CallExc("PutItem", item.taskId, fault) IN
    [exc |-> exc,
     table |-> IF exc # "" THEN tbl
               ELSE {i \in tbl : i.taskId # item.taskId} \cup {item},
     result |-> {}]

\* An update that carries the condition attribute_exists(taskId).
update_item_if_exists(tbl, key, task, completed, fault) ==
    LET exc == CallExc("UpdateItem", key, fault) IN
    [exc |-> exc,
     table |-> IF exc # "" \/ ~\E i \in tbl : i.taskId = key THEN tbl
               ELSE {i \in tbl : i.taskId # key}
                        \cup {[taskId |-> key, task |-> task, completed |-> completed]},
     result |-> {}]

update_item(tbl, key, task, completed, fault) ==
    LET exc == CallExc("UpdateItem", key, fault) IN
    [exc |-> exc,
     table |-> IF exc # "" THEN tbl
               ELSE {i \in tbl : i.taskId # key}
                        \cup {[taskId |-> key, task |-> task, completed |-> completed]},
     result |-> {}]

delete_item(tbl, key, fault) ==
    LET exc == CallExc("DeleteItem", key, fault) IN
    [exc |-> exc,
     table |-> IF exc # "" THEN tbl ELSE {i \in tbl : i.taskId # key},
     result |-> {}]

(***************************************************************************)
(* json.loads(event.get('body', '{}')) and the subscripts on its value.    *)
(***************************************************************************)
\* event.get('body', '{}'): an absent body reads as the text of an empty object.
EventBody(ev) ==
    IF ev.body.kind = "absent" THEN [NoBody EXCEPT !.kind = "object"] ELSE ev.body

json_loads(b) ==
    [exc |-> CASE b.kind = "null" ->
                    "the JSON object must be str, bytes or bytearray, not NoneType"
               [] b.kind = "invalid" -> "Expecting value: line 1 column 1 (char 0)"
               [] OTHER -> "",
     value |-> b]

\* Fields read with .get: a missing key raises nothing.
SubscriptsAsGet(value, names) ==
    IF names # <<>> /\ value.kind = "array"
    THEN "list indices must be integers or slices, not str"
    ELSE ""

\* value[name] for each name of `names` in turn: the text of the first
\* exception raised, "" when every subscript succeeds.
RECURSIVE Subscripts(_, _)
Subscripts(value, names) ==
    IF names = <<>> THEN ""
    ELSE IF value.kind = "array" THEN "list indices must be integers or slices, not str"
    ELSE IF Head(names) \notin value.keys THEN "'" \o Head(names) \o "'"
    ELSE Subscripts(value, Tail(names))

(***************************************************************************)
(* The branches of the handler.  Each returns the exception raised inside  *)
(* the try block ("" when none), the status, the payload, the table        *)
(* afterwards and the table calls made, each with whether it raised.       *)
(***************************************************************************)
Outcome(exc, status, body, tbl, cs) ==
    [exc |-> exc, statusCode |-> status, body |-> body, table |-> tbl, calls |-> cs]

Call(op, key, r) == <<[op |-> op, key |-> key, raised |-> r.exc # ""]>>

\* src/index.py:21-24: (event.get('queryStringParameters') or {}).get('taskId')
TaskIdParam(ev) ==
    IF ev.queryStringParameters.kind = "map" THEN ev.queryStringParameters.taskId
    ELSE None

\* src/index.py:25: `if task_id:`, false of None and of the empty string
Truthy(task_id) == task_id # None /\ task_id # ""

\* A slip in the default of the lookup: an empty object.
ItemOrNotFoundEmpty(result) ==
    IF result = {} THEN Message("")
    ELSE ItemBody(CHOOSE i \in result : TRUE)

\* src/index.py:27
ItemOrNotFound(result) ==
    IF result = {} THEN Message("Task not found")
    ELSE ItemBody(CHOOSE i \in result : TRUE)

\* A slip in the key read from the scan response: 'Item' for 'Items'.
ScanBodyWrongKey(result) == ListBody({})

\* src/index.py:30
ScanBody(result) == ListBody(result)

\* src/index.py:20-30
GetBranch(ev, tbl, fault) ==
    LET task_id == TaskIdParam(ev) IN
    IF Truthy(task_id)
    THEN LET r == get_item(tbl, task_id, fault) IN
         Outcome(r.exc, 200, ItemOrNotFound(r.result), r.table,
                 Call("get_item", task_id, r))
    ELSE LET r == scan(tbl, fault) IN
         Outcome(r.exc, 200, ScanBody(r.result), r.table, Call("scan", None, r))

\* The body read and the subscripts of a branch: the first exception, "" if none.
BodyExc(ev, names) ==
    LET p == json_loads(EventBody(ev)) IN
    IF p.exc # "" THEN p.exc ELSE Subscripts(p.value, names)

\* A slip that stores a constant for the completion flag.
PostItemDropsCompleted(new_task) ==
    [taskId |-> new_task.taskId, task |-> new_task.task, completed |-> FALSE]

\* A slip that writes every task under one key.
PostItemFixedKey(new_task) ==
    [taskId |-> "1", task |-> new_task.task, completed |-> new_task.completed]

\* src/index.py:34-38, the Item of put_item
PostItem(new_task) ==
    [taskId |-> new_task.taskId, task |-> new_task.task,
     completed |-> new_task.completed]

\* src/index.py:32-39
PostBranch(ev, tbl, fault) ==
    LET exc == BodyExc(ev, <<"taskId", "task", "completed">>) IN
    IF exc # "" THEN Outcome(exc, 200, Message(""), tbl, <<>>)
    ELSE LET new_task == json_loads(EventBody(ev)).value
             r == put_item(tbl, PostItem(new_task), fault)
         IN  Outcome(r.exc, 200, Message("Task created successfully"), r.table,
                     Call("put_item", new_task.taskId, r))

\* A slip that binds :completed to a constant.
UpdateValuesDropCompleted(updated_task) ==
    [task |-> updated_task.task, completed |-> FALSE]

\* src/index.py:50-53, ExpressionAttributeValues
UpdateValues(updated_task) ==
    [task |-> updated_task.task, completed |-> updated_task.completed]

\* src/index.py:41-55
PutBranch(ev, tbl, fault) ==
    LET exc == BodyExc(ev, <<"taskId", "task", "completed">>) IN
    IF exc # "" THEN Outcome(exc, 200, Message(""), tbl, <<>>)
    ELSE LET updated_task == json_loads(EventBody(ev)).value
             v == UpdateValues(updated_task)
             r == update_item(tbl, updated_task.taskId, v.task, v.completed, fault)
         IN  Outcome(r.exc, 200, Message("Task updated successfully"), r.table,
                     Call("update_item", updated_task.taskId, r))

\* src/index.py:57-60
DeleteBranch(ev, tbl, fault) ==
    LET exc == BodyExc(ev, <<"taskId">>) IN
    IF exc # "" THEN Outcome(exc, 200, Message(""), tbl, <<>>)
    ELSE LET delete_payload == json_loads(EventBody(ev)).value
             r == delete_item(tbl, delete_payload.taskId, fault)
         IN  Outcome(r.exc, 200, Message("Task deleted successfully"), r.table,
                     Call("delete_item", delete_payload.taskId, r))

\* A slip that leaves the status at its default.
UnsupportedKeepsStatus(ev, tbl) ==
    Outcome("", 200, Message("Unsupported method: " \o HttpMethod(ev)), tbl, <<>>)

\* src/index.py:62-64
UnsupportedBranch(ev, tbl) ==
    Outcome("", 400, Message("Unsupported method: " \o HttpMethod(ev)), tbl, <<>>)

\* src/index.py:18-64, the try block
Dispatch(ev, tbl, fault) ==
    LET http_method == HttpMethod(ev) IN
    CASE http_method = "GET" -> GetBranch(ev, tbl, fault)
      [] http_method = "POST" -> PostBranch(ev, tbl, fault)
      [] http_method = "PUT" -> PutBranch(ev, tbl, fault)
      [] http_method = "DELETE" -> DeleteBranch(ev, tbl, fault)
      [] OTHER -> UnsupportedBranch(ev, tbl)

\* A slip that lets the exception text through under the branch's status.
RespondKeepsStatus(out) ==
    [statusCode |-> out.statusCode,
     headers |-> [ContentType |-> "application/json"],
     body |-> IF out.exc # "" THEN ErrorBody(out.exc) ELSE out.body]

\* src/index.py:66-75, the except clause and the response envelope
Respond(out) ==
    [statusCode |-> IF out.exc # "" THEN 500 ELSE out.statusCode,
     headers |-> [ContentType |-> "application/json"],
     body |-> IF out.exc # "" THEN ErrorBody(out.exc) ELSE out.body]

(***************************************************************************)
(* History of the writes at the watched key: the latest POST, PUT or       *)
(* DELETE naming it whose table call did not raise, with the values the    *)
(* request carried and whether the key held an item when the call ran (for *)
(* a DELETE: when it or a DELETE straight before it ran).                  *)
(***************************************************************************)
NoWrite == [op |-> "none", task |-> None, completed |-> FALSE, existed |-> FALSE]

Recorded(ev, out, tbl, k, prev) ==
    IF HttpMethod(ev) \in {"POST", "PUT", "DELETE"} /\ EventBody(ev).taskId = k
          /\ out.calls # <<>> /\ ~out.calls[1].raised
    THEN LET op == HttpMethod(ev)
             here == \E i \in tbl : i.taskId = k
         IN  [op |-> op,
              task |-> IF op = "DELETE" THEN None ELSE ev.body.task,
              completed |-> IF op = "DELETE" THEN FALSE ELSE ev.body.completed,
              existed |-> \/ here
                          \/ op = "DELETE" /\ prev.op = "DELETE" /\ prev.existed]
    ELSE prev

(***************************************************************************)
(* The state machine.                                                      *)
(***************************************************************************)
Init ==
    /\ table = {}
    /\ event = MkEvent(<<None, None>>, NoQuery, NoBody)
    /\ response = [statusCode |-> 0, headers |-> [ContentType |-> "application/json"],
                   body |-> Message("")]
    /\ calls = <<>>
    /\ watched \in TaskIds
    /\ lastWrite = NoWrite

\* src/index.py:10-75, one invocation
LambdaHandler(ev, fault) ==
    \E out \in {Dispatch(ev, table, fault)} :
        /\ event' = ev
        /\ table' = out.table
        /\ response' = Respond(out)
        /\ calls' = out.calls
        /\ lastWrite' = Recorded(ev, out, table, watched, lastWrite)
        /\ UNCHANGED watched

\* A table service that answers every well-formed call.
Next == \E ev \in Events : LambdaHandler(ev, FALSE)

Spec == Init /\ [][Next]_vars

\* A table service that may fail any call (throttling, connectivity).  The
\* write history is not read by what is checked under faults: it stays empty.
InitFault == Init /\ watched = ""

NextFault == \E ev \in Events, fault \in BOOLEAN : LambdaHandler(ev, fault)

SpecFault == InitFault /\ [][NextFault]_vars

(***************************************************************************)
(* Vocabulary of the properties.                                           *)
(***************************************************************************)
Invoked == response.statusCode # 0
Is(resp, status, body) == resp.statusCode = status /\ resp.body = body
HoldsAll(b) == b.kind = "object" /\ b.keys = FieldNames
HoldsTaskId(b) == b.kind = "object" /\ "taskId" \in b.keys
HasRecord(tbl, k) == \E i \in tbl : i.taskId = k
GetByKey(ev, k) ==
    /\ HttpMethod(ev) = "GET"
    /\ ev.queryStringParameters.kind = "map"
    /\ ev.queryStringParameters.taskId = k
\* The record the latest write at the watched key carried.
WatchedItem ==
    [taskId |-> watched, task |-> lastWrite.task, completed |-> lastWrite.completed]
\* The body of a POST, PUT or DELETE is null, no JSON, no object, or lacks a
\* field the method reads.
BodyFails(ev) ==
    /\ HttpMethod(ev) \in {"POST", "PUT", "DELETE"}
    /\ \/ ev.body.kind \in {"null", "invalid", "array"}
       \/ ~((IF HttpMethod(ev) = "DELETE" THEN {"taskId"} ELSE FieldNames)
                \subseteq ev.body.keys)
\* The table after the one operation of a request has taken full effect.
Effect(tbl, ev) ==
    LET b == ev.body
        rest == {i \in tbl : i.taskId # b.taskId}
    IN  CASE HttpMethod(ev) \in {"POST", "PUT"} ->
                rest \cup {[taskId |-> b.taskId, task |-> b.task,
                            completed |-> b.completed]}
          [] HttpMethod(ev) = "DELETE" -> rest
          [] OTHER -> tbl

(***************************************************************************)
(* C1.  As claimed: every POST whose body is an object holding taskId,     *)
(* task and completed is answered 200 "Task created successfully", and a   *)
(* following GET of that taskId, with no write to the key in between,      *)
(* returns 200 and exactly the posted record, whether or not the key held  *)
(* a record before.  Refuted by a POST with the empty taskId.              *)
(***************************************************************************)
C1_Original ==
    /\ (HttpMethod(event) = "POST" /\ HoldsAll(event.body))
          => Is(response, 200, Message("Task created successfully"))
    /\ (GetByKey(event, watched) /\ lastWrite.op = "POST")
          => Is(response, 200, ItemBody(WatchedItem))

\* C1 as amended: the same for every POST whose taskId is a non-empty string.
C1_PostThenGet ==
    /\ (HttpMethod(event) = "POST" /\ HoldsAll(event.body) /\ event.body.taskId # "")
          => Is(response, 200, Message("Task created successfully"))
    /\ (GetByKey(event, watched) /\ lastWrite.op = "POST")
          => Is(response, 200, ItemBody(WatchedItem))

\* A GET answers with the record a POST wrote over an earlier record.
C1_Witness ==
    /\ GetByKey(event, watched) /\ lastWrite.op = "POST" /\ lastWrite.existed
    /\ response.body = ItemBody(WatchedItem)
    /\ Cardinality(table) > 1

(***************************************************************************)
(* C2.  Every PUT whose body holds the three fields and whose taskId has a *)
(* record is answered 200 "Task updated successfully", and a following GET *)
(* of that taskId, with no write to the key in between, returns the record *)
(* with the new task and completed and the same taskId.                    *)
(***************************************************************************)
C2_PutThenGet ==
    /\ [][(/\ HttpMethod(event') = "PUT"
           /\ HoldsAll(event'.body)
           /\ HasRecord(table, event'.body.taskId))
             => Is(response', 200, Message("Task updated successfully"))]_vars
    /\ []((GetByKey(event, watched) /\ lastWrite.op = "PUT" /\ lastWrite.existed)
             => Is(response, 200, ItemBody(WatchedItem)))

C2_Witness ==
    /\ GetByKey(event, watched) /\ lastWrite.op = "PUT" /\ lastWrite.existed
    /\ response.body = ItemBody(WatchedItem)
    /\ Cardinality(table) > 1

(***************************************************************************)
(* C3.  Every DELETE whose body holds a taskId that has a record is        *)
(* answered 200 "Task deleted successfully", and a following GET of that   *)
(* taskId, with no POST or PUT to the key in between, returns 200 "Task    *)
(* not found".                                                             *)
(***************************************************************************)
C3_DeleteThenGet ==
    /\ [][(/\ HttpMethod(event') = "DELETE"
           /\ HoldsTaskId(event'.body)
           /\ HasRecord(table, event'.body.taskId))
             => Is(response', 200, Message("Task deleted successfully"))]_vars
    /\ []((GetByKey(event, watched) /\ lastWrite.op = "DELETE" /\ lastWrite.existed)
             => Is(response, 200, Message("Task not found")))

C3_Witness ==
    /\ GetByKey(event, watched) /\ lastWrite.op = "DELETE" /\ lastWrite.existed
    /\ response.body = Message("Task not found")
    /\ table # {}

C5_Original ==
    (/\ HttpMethod(event) = "GET"
     /\ event.queryStringParameters.kind = "map"
     /\ event.queryStringParameters.taskId # None)
        => LET found == {i \in table : i.taskId = event.queryStringParameters.taskId}
           IN  /\ response.statusCode = 200
               /\ response.body.kind # "list"
               /\ response.body = IF found = {} THEN Message("Task not found")
                                  ELSE ItemBody(CHOOSE i \in found : TRUE)

(***************************************************************************)
(* C6.  Every event whose method is outside GET, POST, PUT, DELETE is      *)
(* answered 400 "Unsupported method: <method>", and no table call is made. *)
(***************************************************************************)
C6_Unsupported ==
    (Invoked /\ HttpMethod(event) \notin {"GET", "POST", "PUT", "DELETE"})
        => /\ Is(response, 400, Message("Unsupported method: " \o HttpMethod(event)))
           /\ calls = <<>>

C6_Witness ==
    /\ event.nested = "PATCH" /\ event.httpMethod = "GET"
    /\ response.body = Message("Unsupported method: PATCH")
    /\ table # {}

(***************************************************************************)
(* C7.  Every failure while parsing the body, reading a required field or  *)
(* calling the table ends in a response of status 500 whose body is        *)
(* "Internal server error" with a non-empty error text.                    *)
(***************************************************************************)
C7_FailureIs500 ==
    (Invoked /\ (BodyFails(event) \/ (calls # <<>> /\ calls[1].raised)))
        => /\ response.statusCode = 500
           /\ response.body.kind = "error"
           /\ response.body.message = "Internal server error"
           /\ response.body.error # ""

\* A POST whose body lacks task.
C7_Witness ==
    /\ HttpMethod(event) = "POST"
    /\ event.body.kind = "object" /\ event.body.keys = {"taskId", "completed"}
    /\ Is(response, 500, ErrorBody("'task'"))

(***************************************************************************)
(* C8.  As claimed: a PUT whose taskId has no record creates nothing: the  *)
(* store is unchanged and the response is 200 with the update message.     *)
(* Refuted: update_item adds the item.                                     *)
(***************************************************************************)
C8_Original ==
    [][(/\ HttpMethod(event') = "PUT"
        /\ HoldsAll(event'.body)
        /\ ~HasRecord(table, event'.body.taskId))
          => /\ table' = table
             /\ Is(response', 200, Message("Task updated successfully"))]_vars

\* C8 as amended: a PUT whose non-empty taskId has no record creates the
\* record of its three fields at that key and changes nothing else, answered
\* 200 with the update message; with the empty taskId the table rejects the
\* call, nothing is created and the answer is 500.
C8_PutUpserts ==
    [][(/\ HttpMethod(event') = "PUT"
        /\ HoldsAll(event'.body)
        /\ ~HasRecord(table, event'.body.taskId))
          => IF event'.body.taskId # ""
             THEN /\ table' = table \cup {[taskId |-> event'.body.taskId,
                                           task |-> event'.body.task,
                                           completed |-> event'.body.completed]}
                  /\ Is(response', 200, Message("Task updated successfully"))
             ELSE table' = table /\ response'.statusCode = 500]_vars

C8_Witness ==
    /\ HttpMethod(event) = "PUT" /\ HoldsAll(event.body)
    /\ event.body.taskId = watched
    /\ lastWrite.op = "PUT" /\ ~lastWrite.existed
    /\ WatchedItem \in table
    /\ Cardinality(table) > 1

(***************************************************************************)
(* C9.  As claimed: every invocation makes exactly one table call, which   *)
(* takes full effect or fails with no effect.  Refuted by an unsupported   *)
(* method, which makes none.                                               *)
(***************************************************************************)
C9_Original == Invoked => Len(calls) = 1

\* C9 as amended: every invocation makes at most one table call: exactly one
\* for a GET and for a POST, PUT or DELETE whose body parses to an object with
\* the fields the method reads, none otherwise; the call takes full effect
\* with status 200, or raises, leaving the table unchanged, with status 500.
C9_AtMostOneCall ==
    /\ [](Invoked =>
            /\ Len(calls) <= 1
            /\ Len(calls) = 1 <=>
                 /\ HttpMethod(event) \in {"GET", "POST", "PUT", "DELETE"}
                 /\ ~BodyFails(event))
    /\ [][calls' # <<>> =>
            IF calls'[1].raised
            THEN table' = table /\ response'.statusCode = 500
            ELSE table' = Effect(table, event') /\ response'.statusCode = 200]_vars

\* A table call that failed on a table holding records.
C9_Witness ==
    /\ Len(calls) = 1 /\ calls[1].raised /\ calls[1].op = "put_item"
    /\ response.statusCode = 500
    /\ table # {}

(***************************************************************************)
(* C10.  One invocation changes at most the record at the taskId its body  *)
(* names; a GET, an unsupported method and a request that fails on its     *)
(* body leave the whole store unchanged.                                   *)
(***************************************************************************)
C10_Frame ==
    [][/\ {i \in table : i.taskId # event'.body.taskId}
            = {i \in table' : i.taskId # event'.body.taskId}
       /\ (\/ HttpMethod(event') \notin {"POST", "PUT", "DELETE"}
           \/ BodyFails(event'))
             => table' = table]_vars

\* A POST at one key took effect while another key holds a record.
C10_Witness ==
    /\ HttpMethod(event) = "POST" /\ HoldsAll(event.body)
    /\ response.statusCode = 200
    /\ \E i \in table : i.taskId # event.body.taskId

=============================================================================
